---- MODULE Spec2Model ----
(***************************************************************************)
(* A model of vlan-replacer.py: one call of replace_vlan_ids, from the     *)
(* validation of its arguments to the printed summary.                     *)
(*                                                                         *)
(* A text is a sequence of lexemes.  "K" is the keyword 'set vlanid' (it   *)
(* has no proper border, so two occurrences of it never overlap), " " is   *)
(* one space character, "\n" is a whitespace character other than the      *)
(* space, "0".."9" are the decimal digits and "-" is the minus sign that   *)
(* the formatting of a negative integer produces.                          *)
(*                                                                         *)
(* Python's None is modelled as the empty tuple and a present value v as   *)
(* the one-element tuple <<v>>.                                            *)
(***************************************************************************)
EXTENDS Integers, Sequences, FiniteSets, TLC

\* ------------------------------------------------------------------ bounds

\* Longest input text, in lexemes.
MaxLen == 4

\* Most lines of an input text made of whole lines.
MaxLines == 2

\* Largest value of a range argument in the configuration-centred runs.
MaxVlan == 3

\* ------------------------------------------------------------ optionals

None == <<>>

Some(v) == <<v>>

Val(x) == x[1]

\* ------------------------------------------------------------ conversions

Digits == <<"0", "1", "2", "3", "4", "5", "6", "7", "8", "9">>

IsDigit(t) == \E d \in 1..10 : Digits[d] = t

DigitVal(t) == (CHOOSE d \in 1..10 : Digits[d] = t) - 1

\* int(match.group(1)): the value of a non-empty string of decimal digits.
RECURSIVE int(_)
int(ds) ==
    IF Len(ds) = 0 THEN 0
    ELSE 10 * int(SubSeq(ds, 1, Len(ds) - 1)) + DigitVal(ds[Len(ds)])

\* The decimal digits of a natural number, without leading zeros.
RECURSIVE FormatNat(_)
FormatNat(n) ==
    IF n < 10 THEN <<Digits[n + 1]>>
    ELSE FormatNat(n \div 10) \o <<Digits[(n % 10) + 1]>>

\* The f-string conversion {new_vlan_id} of an integer.
FormatInt(n) == IF n < 0 THEN <<"-">> \o FormatNat(-n) ELSE FormatNat(n)

\* Statement without the space in front of the id.
Statement_NoSpace(n) == <<"K">> \o FormatInt(n)

\* f"set vlanid {new_vlan_id}"
Statement(n) == <<"K", " ">> \o FormatInt(n)

\* ------------------------------------------------------------ dictionaries

EmptyDict == <<>>

\* d[k] = v
Put(d, k, v) == [x \in (DOMAIN d) \cup {k} |-> IF x = k THEN v ELSE d[x]]

\* sorted(S) for a finite set of integers.
RECURSIVE sorted(_)
sorted(S) ==
    IF S = {} THEN <<>>
    ELSE LET lo == CHOOSE x \in S : \A y \in S : x <= y
         IN  <<lo>> \o sorted(S \ {lo})

\* sorted(d.items())
items(d) == LET ks == sorted(DOMAIN d)
            IN  [i \in 1..Len(ks) |-> <<ks[i], d[ks[i]]>>]

\* ------------------------------------------------------------ validation

has_ranges_of(os, oe, ns, ne) ==
    /\ os # None
    /\ oe # None
    /\ ns # None
    /\ ne # None

has_mapping_of(md) == md # None /\ Cardinality(DOMAIN Val(md)) > 0

\* OffsetOf with the operands exchanged.
OffsetOf_Reversed(os, ns) == Val(os) - Val(ns)

\* offset = new_start - old_start
OffsetOf(os, ns) == Val(ns) - Val(os)

\* ValidationError without the comparison of the sizes of the ranges.
ValidationError_NoSizeCheck(md, os, oe, ns, ne) ==
    IF ~has_ranges_of(os, oe, ns, ne) /\ ~has_mapping_of(md) THEN "no_method"
    ELSE IF ~has_ranges_of(os, oe, ns, ne) THEN "ok"
    ELSE IF Val(os) >= Val(oe) THEN "old_range"
    ELSE IF Val(ns) >= Val(ne) THEN "new_range"
    ELSE "ok"

\* The checks of the arguments, in the order of the code; "ok" when all pass.
ValidationError(md, os, oe, ns, ne) ==
    IF ~has_ranges_of(os, oe, ns, ne) /\ ~has_mapping_of(md) THEN "no_method"
    ELSE IF ~has_ranges_of(os, oe, ns, ne) THEN "ok"
    ELSE IF Val(os) >= Val(oe) THEN "old_range"
    ELSE IF Val(ns) >= Val(ne) THEN "new_range"
    ELSE IF Val(oe) - Val(os) + 1 # Val(ne) - Val(ns) + 1 THEN "size_mismatch"
    ELSE "ok"

\* What the callback replace_vlan closes over.
Closure(md, os, oe, ns, ne) ==
    [has_mapping  |-> has_mapping_of(md),
     mapping_dict |-> md,
     has_ranges   |-> has_ranges_of(os, oe, ns, ne),
     old_start    |-> os,
     old_end      |-> oe,
     offset       |-> IF has_ranges_of(os, oe, ns, ne) THEN Some(OffsetOf(os, ns))
                      ELSE None]

\* ------------------------------------------------------------ substitution

\* The character between the keyword and the digits in the pattern
\* r'set vlanid (\d+)': one space.
Separator(t) == t = " "

\* The pattern matches at position i of the text.
MatchAt(text, i) ==
    /\ i + 2 <= Len(text)
    /\ text[i] = "K"
    /\ Separator(text[i + 1])
    /\ IsDigit(text[i + 2])

\* DigitRun for the pattern (\d) in place of (\d+): one digit.
DigitRun_OneDigit(text, j) ==
    IF j > Len(text) \/ ~IsDigit(text[j]) THEN 0 ELSE 1

\* The length of the longest run of digits that starts at position j (\d+ is
\* greedy).
RECURSIVE DigitRun(_, _)
DigitRun(text, j) ==
    IF j > Len(text) \/ ~IsDigit(text[j]) THEN 0 ELSE 1 + DigitRun(text, j + 1)

\* The accumulators of a substitution before its first match.
NoRecords ==
    [out |-> <<>>, calls |-> <<>>, replacements |-> EmptyDict,
     mapping_replacements |-> EmptyDict, range_replacements |-> EmptyDict]

\* replace_vlan with the range consulted before the mapping table.
replace_vlan_RangeFirst(cl, group0, group1, st) ==
    LET vlan_id == int(group1)
    IN  IF /\ cl.has_ranges
           /\ Val(cl.old_start) <= vlan_id
           /\ vlan_id <= Val(cl.old_end)
        THEN LET new_vlan_id == vlan_id + Val(cl.offset)
             IN  [text |-> Statement(new_vlan_id),
                  replacements |-> Put(st.replacements, vlan_id, new_vlan_id),
                  mapping_replacements |-> st.mapping_replacements,
                  range_replacements |->
                      Put(st.range_replacements, vlan_id, new_vlan_id)]
        ELSE IF cl.has_mapping /\ vlan_id \in DOMAIN Val(cl.mapping_dict)
        THEN LET new_vlan_id == Val(cl.mapping_dict)[vlan_id]
             IN  [text |-> Statement(new_vlan_id),
                  replacements |-> Put(st.replacements, vlan_id, new_vlan_id),
                  mapping_replacements |->
                      Put(st.mapping_replacements, vlan_id, new_vlan_id),
                  range_replacements |-> st.range_replacements]
        ELSE [text |-> group0,
              replacements |-> st.replacements,
              mapping_replacements |-> st.mapping_replacements,
              range_replacements |-> st.range_replacements]

\* replace_vlan that writes an id it does not replace anew, from its value,
\* in place of returning the match.
replace_vlan_Rewrites(cl, group0, group1, st) ==
    LET vlan_id == int(group1)
    IN  IF cl.has_mapping /\ vlan_id \in DOMAIN Val(cl.mapping_dict)
        THEN LET new_vlan_id == Val(cl.mapping_dict)[vlan_id]
             IN  [text |-> Statement(new_vlan_id),
                  replacements |-> Put(st.replacements, vlan_id, new_vlan_id),
                  mapping_replacements |->
                      Put(st.mapping_replacements, vlan_id, new_vlan_id),
                  range_replacements |-> st.range_replacements]
        ELSE IF /\ cl.has_ranges
                /\ Val(cl.old_start) <= vlan_id
                /\ vlan_id <= Val(cl.old_end)
        THEN LET new_vlan_id == vlan_id + Val(cl.offset)
             IN  [text |-> Statement(new_vlan_id),
                  replacements |-> Put(st.replacements, vlan_id, new_vlan_id),
                  mapping_replacements |-> st.mapping_replacements,
                  range_replacements |->
                      Put(st.range_replacements, vlan_id, new_vlan_id)]
        ELSE [text |-> Statement(vlan_id),
              replacements |-> st.replacements,
              mapping_replacements |-> st.mapping_replacements,
              range_replacements |-> st.range_replacements]

\* The callback: the replacement text for one match and the records after it.
\* group0 is the whole match, group1 the captured digits.
replace_vlan(cl, group0, group1, st) ==
    LET vlan_id == int(group1)
    IN  IF cl.has_mapping /\ vlan_id \in DOMAIN Val(cl.mapping_dict)
        THEN LET new_vlan_id == Val(cl.mapping_dict)[vlan_id]
             IN  [text |-> Statement(new_vlan_id),
                  replacements |-> Put(st.replacements, vlan_id, new_vlan_id),
                  mapping_replacements |->
                      Put(st.mapping_replacements, vlan_id, new_vlan_id),
                  range_replacements |-> st.range_replacements]
        ELSE IF /\ cl.has_ranges
                /\ Val(cl.old_start) <= vlan_id
                /\ vlan_id <= Val(cl.old_end)
        THEN LET new_vlan_id == vlan_id + Val(cl.offset)
             IN  [text |-> Statement(new_vlan_id),
                  replacements |-> Put(st.replacements, vlan_id, new_vlan_id),
                  mapping_replacements |-> st.mapping_replacements,
                  range_replacements |->
                      Put(st.range_replacements, vlan_id, new_vlan_id)]
        ELSE [text |-> group0,
              replacements |-> st.replacements,
              mapping_replacements |-> st.mapping_replacements,
              range_replacements |-> st.range_replacements]

\* re.sub from position i on: the leftmost match is replaced by what the
\* callback returns and the scan goes on behind it; any other lexeme is
\* copied.  calls lists the invocations of the callback: where the match
\* starts in the text, how long it is, its id, and where its replacement
\* lies in the result.
RECURSIVE sub_from(_, _, _, _)
sub_from(cl, text, i, st) ==
    IF i > Len(text) THEN st
    ELSE IF MatchAt(text, i)
    THEN LET n  == DigitRun(text, i + 2)
             g0 == SubSeq(text, i, i + 1 + n)
             g1 == SubSeq(text, i + 2, i + 1 + n)
             r  == replace_vlan(cl, g0, g1, st)
         IN  sub_from(cl, text, i + 2 + n,
                 [out |-> st.out \o r.text,
                  calls |-> Append(st.calls,
                      [start |-> i, len |-> 2 + n, vlan_id |-> int(g1),
                       out_start |-> Len(st.out) + 1, out_len |-> Len(r.text)]),
                  replacements |-> r.replacements,
                  mapping_replacements |-> r.mapping_replacements,
                  range_replacements |-> r.range_replacements])
    ELSE sub_from(cl, text, i + 1, [st EXCEPT !.out = Append(@, text[i])])

\* re_sub that substitutes once more in its own result.
re_sub_Rescans(cl, text) ==
    LET once == sub_from(cl, text, 1, NoRecords)
    IN  [once EXCEPT !.out = sub_from(cl, once.out, 1, NoRecords).out]

\* new_content = re.sub(pattern, replace_vlan, content)
re_sub(cl, text) == sub_from(cl, text, 1, NoRecords)

\* ------------------------------------------------------------ summary

\* The lists of unmatched ids are printed in full up to this many entries.
MissingCap == 20

\* Beyond MissingCap entries only this many of the first and of the last
\* are printed.
MissingEdge == 10

\* The list of missing ids as printed; nothing is printed for an empty list.
PrintedMissing(missing_vlans) ==
    IF Len(missing_vlans) <= MissingCap THEN missing_vlans
    ELSE SubSeq(missing_vlans, 1, MissingEdge)
         \o SubSeq(missing_vlans, Len(missing_vlans) - MissingEdge + 1,
                   Len(missing_vlans))

\* The lists of replacements are printed in full up to this many entries.
PreviewCap == 10

\* The mapping replacements as printed: all of them, or the first PreviewCap.
PrintedMappingItems(its) ==
    IF Len(its) <= PreviewCap THEN its ELSE SubSeq(its, 1, PreviewCap)

\* The range replacements as printed: all of them, or the first and the last
\* PreviewCap.
PrintedRangeItems(its) ==
    IF Len(its) <= PreviewCap THEN its
    ELSE SubSeq(its, 1, PreviewCap)
         \o SubSeq(its, Len(its) - PreviewCap + 1, Len(its))

\* Nothing printed yet.
NoSummary ==
    [none_replaced |-> FALSE, total |-> 0,
     mapping_items |-> <<>>, mapping_missing |-> <<>>,
     range_items |-> <<>>, range_missing |-> <<>>]

\* The summary printed after the output is written.
SummaryOf(cl, repl, mrepl, rrepl) ==
    IF DOMAIN repl = {}
    THEN [NoSummary EXCEPT !.none_replaced = TRUE]
    ELSE [none_replaced |-> FALSE,
          total |-> Cardinality(DOMAIN repl),
          mapping_items |->
              IF DOMAIN mrepl # {} THEN PrintedMappingItems(items(mrepl))
              ELSE <<>>,
          mapping_missing |->
              IF DOMAIN mrepl # {} /\ cl.has_mapping
              THEN PrintedMissing(
                       sorted((DOMAIN Val(cl.mapping_dict)) \ (DOMAIN mrepl)))
              ELSE <<>>,
          range_items |->
              IF DOMAIN rrepl # {} THEN PrintedRangeItems(items(rrepl))
              ELSE <<>>,
          range_missing |->
              IF DOMAIN rrepl # {} /\ cl.has_ranges
              THEN PrintedMissing(
                       sorted((Val(cl.old_start)..Val(cl.old_end)) \ (DOMAIN rrepl)))
              ELSE <<>>]

\* ------------------------------------------------------------ state

VARIABLES
    mapping_dict, old_start, old_end, new_start, new_end,  \* the arguments
    input_file,            \* the text of the input file, None if unreadable
    pc,                    \* the statement replace_vlan_ids is at
    offset,                \* None until a range is validated
    content, new_content,  \* the text read and the text rewritten, or None
    calls,                 \* the invocations of replace_vlan, in order
    replacements, mapping_replacements, range_replacements,
    out_opened,            \* the output file was opened for writing
    out_data,              \* what was written to it
    summary,               \* the summary printed
    result,                \* "running", or the value returned
    error                  \* the error printed, "none" if none

args == <<mapping_dict, old_start, old_end, new_start, new_end, input_file>>

locals == <<offset, content, new_content, calls, replacements,
            mapping_replacements, range_replacements>>

vars == <<args, pc, locals, out_opened, out_data, summary, result, error>>

has_ranges == has_ranges_of(old_start, old_end, new_start, new_end)

has_mapping == has_mapping_of(mapping_dict)

closure == Closure(mapping_dict, old_start, old_end, new_start, new_end)

\* ------------------------------------------------------------ inputs

Alphabet == {"K", " ", "\n", "0", "1"}

\* Every text of up to MaxLen lexemes.
Strings == UNION {[1..n -> Alphabet] : n \in 0..MaxLen}

\* A line: the keyword, a space or a line break, one or two digits, and the
\* end of the line.
Lines ==
    {<<"K", s>> \o ds \o <<"\n">> :
        s \in {" ", "\n"},
        ds \in [1..1 -> {"0", "1"}] \cup [1..2 -> {"0", "1"}]}

\* Every text of n lines.
RECURSIVE LineTexts(_)
LineTexts(n) ==
    IF n = 0 THEN {<<>>}
    ELSE {l \o t : l \in Lines, t \in LineTexts(n - 1)}

Texts == Strings \cup UNION {LineTexts(n) : n \in 0..MaxLines}

Files(texts) == {None} \cup {Some(t) : t \in texts}

MapKeys == {0, 1}

MapVals == {0, 1, 2}

Tables(keys, vals) == UNION {[S -> vals] : S \in SUBSET keys}

MappingArgs == {None} \cup {Some(f) : f \in Tables(MapKeys, MapVals)}

\* No range, or the old range 0..1 moved to 10..11.
RangeArgs ==
    {<<None, None, None, None>>, <<Some(0), Some(1), Some(10), Some(11)>>}

OptVlans == {None} \cup {Some(v) : v \in 0..MaxVlan}

Begin ==
    /\ pc = "validate"
    /\ offset = None
    /\ content = None
    /\ new_content = None
    /\ calls = <<>>
    /\ replacements = EmptyDict
    /\ mapping_replacements = EmptyDict
    /\ range_replacements = EmptyDict
    /\ out_opened = FALSE
    /\ out_data = <<>>
    /\ summary = NoSummary
    /\ result = "running"
    /\ error = "none"

\* Runs over every text of Texts, with the mapping tables over MapKeys and
\* one range.
InitText ==
    /\ mapping_dict \in MappingArgs
    /\ \E r \in RangeArgs :
           /\ old_start = r[1]
           /\ old_end = r[2]
           /\ new_start = r[3]
           /\ new_end = r[4]
    /\ input_file \in Files(Texts)
    /\ Begin

\* Runs over every combination of range arguments up to MaxVlan, each of
\* them optional, with one statement as the text.
InitCfg ==
    /\ mapping_dict \in {None, Some(EmptyDict), Some(Put(EmptyDict, 1, 0)),
                         Some(Put(EmptyDict, 1, -1))}
    /\ old_start \in OptVlans
    /\ old_end \in OptVlans
    /\ new_start \in OptVlans
    /\ new_end \in OptVlans
    /\ input_file \in Files({<<"K", " ", "1">>})
    /\ Begin

Init == InitText \/ InitCfg

\* ------------------------------------------------------------ actions

\* Lines 17-47: the arguments are validated and the offset is derived.
Validate ==
    /\ pc = "validate"
    /\ LET e == ValidationError(mapping_dict, old_start, old_end, new_start, new_end)
       IN  IF e # "ok"
           THEN /\ error' = e
                /\ result' = "False"
                /\ pc' = "returned"
                /\ offset' = offset
           ELSE /\ offset' = closure.offset
                /\ pc' = "read"
                /\ UNCHANGED <<error, result>>
    /\ UNCHANGED <<args, content, new_content, calls, replacements,
                   mapping_replacements, range_replacements,
                   out_opened, out_data, summary>>

\* Lines 49-60: the input file is read; a missing or unreadable file ends
\* the run.
ReadInput ==
    /\ pc = "read"
    /\ IF input_file = None
       THEN /\ error' = "read"
            /\ result' = "False"
            /\ pc' = "returned"
            /\ content' = content
       ELSE /\ content' = input_file
            /\ pc' = "substitute"
            /\ UNCHANGED <<error, result>>
    /\ UNCHANGED <<args, offset, new_content, calls, replacements,
                   mapping_replacements, range_replacements,
                   out_opened, out_data, summary>>

\* Lines 62-91: every match of the pattern in the text is passed to
\* replace_vlan.
Substitute ==
    /\ pc = "substitute"
    /\ LET st == re_sub(closure, Val(content))
       IN  /\ new_content' = Some(st.out)
           /\ calls' = st.calls
           /\ replacements' = st.replacements
           /\ mapping_replacements' = st.mapping_replacements
           /\ range_replacements' = st.range_replacements
    /\ pc' = "write"
    /\ UNCHANGED <<args, offset, content, out_opened, out_data, summary,
                   result, error>>

\* WriteOutput that writes the text read in place of the text rewritten.
WriteOutput_WritesInput ==
    /\ pc = "write"
    /\ \/ /\ out_opened' = TRUE
          /\ out_data' = Val(content)
          /\ pc' = "summary"
          /\ UNCHANGED <<error, result>>
       \/ /\ UNCHANGED <<out_opened, out_data>>
          /\ error' = "write"
          /\ result' = "False"
          /\ pc' = "returned"
       \/ \E n \in 0..Len(Val(content)) :
          /\ out_opened' = TRUE
          /\ out_data' = SubSeq(Val(content), 1, n)
          /\ error' = "write"
          /\ result' = "False"
          /\ pc' = "returned"
    /\ UNCHANGED <<args, locals, summary>>

\* Lines 93-100: the output file is opened for writing, which empties it,
\* and the text is written.  The open may fail; the write, the flush or the
\* close may fail after any prefix of the text has reached the file.
WriteOutput ==
    /\ pc = "write"
    /\ \/ /\ out_opened' = TRUE
          /\ out_data' = Val(new_content)
          /\ pc' = "summary"
          /\ UNCHANGED <<error, result>>
       \/ /\ UNCHANGED <<out_opened, out_data>>
          /\ error' = "write"
          /\ result' = "False"
          /\ pc' = "returned"
       \/ \E n \in 0..Len(Val(new_content)) :
          /\ out_opened' = TRUE
          /\ out_data' = SubSeq(Val(new_content), 1, n)
          /\ error' = "write"
          /\ result' = "False"
          /\ pc' = "returned"
    /\ UNCHANGED <<args, locals, summary>>

\* Lines 102-160: the summary is printed and True is returned.
Summary ==
    /\ pc = "summary"
    /\ summary' = SummaryOf(closure, replacements, mapping_replacements,
                            range_replacements)
    /\ result' = "True"
    /\ pc' = "returned"
    /\ UNCHANGED <<args, locals, out_opened, out_data, error>>

Next ==
    \/ Validate
    \/ ReadInput
    \/ Substitute
    \/ WriteOutput
    \/ Summary

Spec == Init /\ [][Next]_vars

\* ------------------------------------------------------------ vocabulary

\* The substitution has run: calls, new_content and the records are set.
Substituted == new_content # None

\* The run returned True, after the summary.
Succeeded == result = "True"

Table == Val(mapping_dict)

Keys == IF has_mapping THEN DOMAIN Table ELSE {}

InOldRange(id) ==
    has_ranges /\ Val(old_start) <= id /\ id <= Val(old_end)

Calls == 1..Len(calls)

MatchedIds == {calls[k].vlan_id : k \in Calls}

\* The lexemes of a match in the text and of its replacement in the result.
InSpan(c) == SubSeq(Val(content), c.start, c.start + c.len - 1)

OutSpan(c) == SubSeq(Val(new_content), c.out_start, c.out_start + c.out_len - 1)

\* The text between match k and match k+1 (before the first one for k = 0,
\* behind the last one for k = Len(calls)), in the text and in the result.
InGap(k) ==
    SubSeq(Val(content),
           IF k = 0 THEN 1 ELSE calls[k].start + calls[k].len,
           IF k = Len(calls) THEN Len(Val(content)) ELSE calls[k + 1].start - 1)

OutGap(k) ==
    SubSeq(Val(new_content),
           IF k = 0 THEN 1 ELSE calls[k].out_start + calls[k].out_len,
           IF k = Len(calls) THEN Len(Val(new_content))
           ELSE calls[k + 1].out_start - 1)

\* 10^n
RECURSIVE Pow10(_)
Pow10(n) == IF n = 0 THEN 1 ELSE 10 * Pow10(n - 1)

\* The number a string of digits denotes: the sum of its digits, each times
\* the power of ten of its place.
RECURSIVE Denotes(_)
Denotes(ds) ==
    IF ds = <<>> THEN 0
    ELSE DigitVal(Head(ds)) * Pow10(Len(ds) - 1) + Denotes(Tail(ds))

\* The statement 'set vlanid n' for a natural number n below 100.
StatementFor(n) ==
    IF n < 0 THEN <<"K", " ", "-">> \o <<Digits[(-n) + 1]>>
    ELSE IF n < 10 THEN <<"K", " ", Digits[n + 1]>>
    ELSE <<"K", " ", Digits[(n \div 10) + 1], Digits[(n % 10) + 1]>>

\* ------------------------------------------------------------ C1

\* C1: every matched occurrence whose id is a key of the mapping table and
\* lies in the old range is rewritten to the mapped id, and is recorded as
\* mapping-sourced and not as range-sourced.
C1_MappingPrecedence ==
    Substituted =>
        \A k \in Calls :
            LET c == calls[k] id == c.vlan_id
            IN  (id \in Keys /\ InOldRange(id)) =>
                    /\ OutSpan(c) = StatementFor(Table[id])
                    /\ id \in DOMAIN mapping_replacements
                    /\ mapping_replacements[id] = Table[id]
                    /\ id \notin DOMAIN range_replacements

\* An occurrence of a mapped id of the old range was rewritten, and the
\* mapped id is not the id moved by the offset.
C1_Witness ==
    /\ Succeeded
    /\ \E k \in Calls :
           /\ calls[k].vlan_id \in Keys
           /\ InOldRange(calls[k].vlan_id)
           /\ Table[calls[k].vlan_id] # calls[k].vlan_id + Val(offset)

\* ------------------------------------------------------------ C2

\* C2: with a valid range, every matched occurrence whose id lies in the old
\* range and is no mapping key is rewritten to id + (new_start - old_start),
\* which lies in the new range, and is recorded as range-sourced.
C2_RangeArithmetic ==
    Substituted =>
        \A k \in Calls :
            LET c == calls[k]
                id == c.vlan_id
                moved == id + (Val(new_start) - Val(old_start))
            IN  (InOldRange(id) /\ id \notin Keys) =>
                    /\ OutSpan(c) = StatementFor(moved)
                    /\ Val(new_start) <= moved
                    /\ moved <= Val(new_end)
                    /\ id \in DOMAIN range_replacements
                    /\ range_replacements[id] = moved
                    /\ id \notin DOMAIN mapping_replacements

\* An occurrence of an unmapped id of the old range was rewritten, although a
\* mapping table is configured.
C2_Witness ==
    /\ Succeeded
    /\ has_mapping
    /\ \E k \in Calls :
           /\ InOldRange(calls[k].vlan_id)
           /\ calls[k].vlan_id \notin Keys
           /\ Val(new_start) # Val(old_start)

\* ------------------------------------------------------------ C3

ConfigErrors == {"no_method", "old_range", "new_range", "size_mismatch"}

MappingSupplied == mapping_dict # None /\ DOMAIN Val(mapping_dict) # {}

RangeSupplied ==
    old_start # None /\ old_end # None /\ new_start # None /\ new_end # None

\* The configurations the specification rejects.
Rejected ==
    \/ ~MappingSupplied /\ ~RangeSupplied
    \/ /\ RangeSupplied
       /\ \/ Val(old_start) >= Val(old_end)
          \/ Val(new_start) >= Val(new_end)
          \/ Val(old_end) - Val(old_start) + 1 # Val(new_end) - Val(new_start) + 1

\* C3: configuration fails exactly for the rejected configurations; in every
\* other case it succeeds, and with a range the offset is
\* new_start - old_start.
C3_ConfigurationFails ==
    pc # "validate" =>
        /\ (error \in ConfigErrors) <=> Rejected
        /\ error \notin ConfigErrors =>
               offset = IF RangeSupplied
                        THEN Some(Val(new_start) - Val(old_start))
                        ELSE None

\* Two well-formed ranges of different sizes were rejected.
C3_Witness ==
    /\ pc = "returned"
    /\ error = "size_mismatch"
    /\ Val(old_start) < Val(old_end)
    /\ Val(new_start) < Val(new_end)

\* ------------------------------------------------------------ C4

IsPrefix(p, t) == Len(p) <= Len(t) /\ p = SubSeq(t, 1, Len(p))

\* C4 as stated: a rejected configuration is detected before the text is
\* read or substituted, a failed run has written nothing, and what the
\* output holds is the complete rewritten text of a successful run.
C4_NoPartialSuccess ==
    /\ Rejected => content = None /\ new_content = None
    /\ result = "False" => out_data = <<>>
    /\ out_data # <<>> => result # "False" /\ out_data = Val(new_content)

\* C4 as amended: a rejected configuration is detected before the text is
\* read or substituted; after a configuration error or a read error the
\* output was never opened; the output is opened only after the whole
\* substitution, holds a prefix of the rewritten text, and holds all of it
\* when the run succeeds.
C4_FailuresBeforeWrite ==
    /\ Rejected => content = None /\ new_content = None /\ ~out_opened
    /\ error \in ConfigErrors \cup {"read"} =>
           new_content = None /\ ~out_opened /\ out_data = <<>>
    /\ ~out_opened => out_data = <<>>
    /\ out_opened => Substituted /\ IsPrefix(out_data, Val(new_content))
    /\ pc = "summary" \/ Succeeded =>
           out_opened /\ out_data = Val(new_content)

\* A run that rewrote the text failed while writing, with a part of the
\* rewritten text in the output.
C4_Witness ==
    /\ result = "False"
    /\ error = "write"
    /\ out_opened
    /\ new_content # content
    /\ out_data # <<>>
    /\ out_data # Val(new_content)

\* ------------------------------------------------------------ C5

\* The id of a match is replaced by neither tier.
Untouched(id) == id \notin Keys /\ ~InOldRange(id)

\* C5: the text between the matches, and every match whose id is neither a
\* mapping key nor in the old range, is in the result as it is in the text,
\* and such a match leaves no record; when no matched id is a key or in the
\* range the result is the text and the summary reports no replacement.
C5_Frame ==
    Substituted =>
        /\ \A k \in 0..Len(calls) : OutGap(k) = InGap(k)
        /\ \A k \in Calls :
               Untouched(calls[k].vlan_id) =>
                   /\ OutSpan(calls[k]) = InSpan(calls[k])
                   /\ calls[k].vlan_id \notin DOMAIN replacements
        /\ (\A k \in Calls : Untouched(calls[k].vlan_id)) =>
               /\ new_content = content
               /\ replacements = EmptyDict
               /\ Succeeded => summary.none_replaced /\ summary.total = 0

\* A successful run with a mapping table left a match written with a leading
\* zero as it was, behind other text.
C5_Witness ==
    /\ Succeeded
    /\ has_mapping
    /\ \E k \in Calls :
           /\ Untouched(calls[k].vlan_id)
           /\ calls[k].len > 3
           /\ InSpan(calls[k])[3] = "0"
           /\ calls[k].start > 1

\* ------------------------------------------------------------ C6

Targets == {Table[k] : k \in Keys}

\* The inverse table, new id -> old id.
Inverse == [v \in Targets |-> CHOOSE k \in Keys : Table[k] = v]

\* The second engine: the inverse mapping and no range.
InverseClosure == Closure(Some(Inverse), None, None, None, None)

RestoredText == re_sub(InverseClosure, Val(new_content)).out

\* C6 as stated: applying a mapping table and then the inverse mapping
\* restores the text.
C6_RoundTrip ==
    (Substituted /\ has_mapping /\ ~has_ranges) => RestoredText = Val(content)

\* The id of match c is written in the text as decimal digits without
\* leading zeros.
Canonical(c) == c.len = 3 \/ InSpan(c)[3] # "0"

\* The round trip can restore the text: no two keys share a target, no target
\* is negative, every matched key is written without leading zeros, and no
\* matched id that is not a key is a target.
Invertible ==
    /\ \A j, k \in Keys : Table[j] = Table[k] => j = k
    /\ \A k \in Keys : Table[k] >= 0
    /\ \A k \in Calls :
           /\ calls[k].vlan_id \in Keys => Canonical(calls[k])
           /\ calls[k].vlan_id \notin Keys => calls[k].vlan_id \notin Targets

\* C6 as amended: the round trip restores the text when the mapping is
\* injective with non-negative targets, every matched key is written without
\* leading zeros and no other matched id is a target.
C6_RoundTripInvertible ==
    (Substituted /\ has_mapping /\ ~has_ranges /\ Invertible) =>
        RestoredText = Val(content)

\* A text with two matched keys was rewritten to another text by an
\* invertible mapping.
C6_Witness ==
    /\ Succeeded
    /\ has_mapping
    /\ ~has_ranges
    /\ Invertible
    /\ \E j, k \in Calls : calls[j].vlan_id # calls[k].vlan_id
    /\ \A k \in Calls : calls[k].vlan_id \in Keys
    /\ new_content # content

\* ------------------------------------------------------------ C7

\* C7: after a successful run with a mapping table the summary lists the
\* mapping keys that were not matched in the text, in ascending order, also
\* when nothing was replaced.
C7_UnmatchedMappingKeys ==
    (Succeeded /\ has_mapping) =>
        summary.mapping_missing = sorted(Keys \ MatchedIds)

\* ------------------------------------------------------------ C8

\* The ids the summary lists as not found in the old range.
ListedMissing == {summary.range_missing[i] : i \in 1..Len(summary.range_missing)}

\* C8, for the runs that print the range section: after a successful run with
\* a range the summary lists the ids of the old range that were not matched
\* in the text, in ascending order; an id of the old range that was matched
\* and replaced, by either tier, is not listed.
C8_UnmatchedRangeIds ==
    (Succeeded /\ has_ranges /\ summary.range_items # <<>>) =>
        /\ summary.range_missing =
               sorted((Val(old_start)..Val(old_end)) \ MatchedIds)
        /\ \A id \in MatchedIds :
               id \in DOMAIN replacements => id \notin ListedMissing

\* ------------------------------------------------------------ C9

Whitespace == {" ", "\n"}

\* The keyword, a lexeme of seps and a digit stand at position i of the text.
OccurrenceAt(i, seps) ==
    /\ i + 2 <= Len(Val(content))
    /\ Val(content)[i] = "K"
    /\ Val(content)[i + 1] \in seps
    /\ IsDigit(Val(content)[i + 2])

\* The digits that follow position i: all lexemes up to the next one that is
\* no digit.
DigitsAfter(i) ==
    LET t == Val(content)
        stop == CHOOSE j \in (i + 1)..(Len(t) + 1) :
                    /\ j = Len(t) + 1 \/ ~IsDigit(t[j])
                    /\ \A h \in (i + 1)..(j - 1) : IsDigit(t[h])
    IN  SubSeq(t, i + 1, stop - 1)

\* C9 as stated: every occurrence of the keyword, any whitespace and digits
\* is recognised, with the digits resolved as the id.
C9_AnyWhitespace ==
    Substituted =>
        \A i \in 1..Len(Val(content)) :
            OccurrenceAt(i, Whitespace) =>
                \E k \in Calls :
                    /\ calls[k].start = i
                    /\ calls[k].vlan_id = Denotes(DigitsAfter(i + 1))

\* C9 as amended: the occurrences recognised are exactly those of the
\* keyword, one space and digits; each is recognised once, with all its
\* digits, resolved as the id; the matches are in text order and do not
\* overlap.
C9_OneSpace ==
    Substituted =>
        /\ \A i \in 1..Len(Val(content)) :
               OccurrenceAt(i, {" "}) <=> \E k \in Calls : calls[k].start = i
        /\ \A k \in Calls :
               /\ calls[k].len = 2 + Len(DigitsAfter(calls[k].start + 1))
               /\ calls[k].vlan_id = Denotes(DigitsAfter(calls[k].start + 1))
        /\ \A k \in Calls :
               k < Len(calls) => calls[k].start + calls[k].len <= calls[k + 1].start

\* A text with a two-digit occurrence behind one space and an occurrence
\* behind a line break: the first is recognised, the second is not.
C9_Witness ==
    /\ Substituted
    /\ \E k \in Calls : calls[k].len = 4 /\ calls[k].vlan_id = 10
    /\ \E i \in 1..Len(Val(content)) :
           /\ OccurrenceAt(i, {"\n"})
           /\ \A k \in Calls : calls[k].start # i

\* ------------------------------------------------------------ C10

\* The id an original id resolves to, the table or the range consulted once.
ResolvedOnce(id) ==
    IF id \in Keys THEN Table[id]
    ELSE IF InOldRange(id) THEN id + Val(new_start) - Val(old_start)
    ELSE id

\* The result put together from the text in one pass: before match k and
\* behind it.
RECURSIVE OnePass(_)
OnePass(k) ==
    IF k = 0 THEN InGap(0)
    ELSE OnePass(k - 1)
         \o (IF Untouched(calls[k].vlan_id) THEN InSpan(calls[k])
             ELSE StatementFor(ResolvedOnce(calls[k].vlan_id)))
         \o InGap(k)

\* C10: the result is the text with each occurrence resolved once against
\* its original id; a replacement id is not resolved again.
C10_SinglePass ==
    Substituted => Val(new_content) = OnePass(Len(calls))

\* A swapping table exchanged the ids 0 and 1 of a text that holds both.
C10_Witness ==
    /\ Succeeded
    /\ 0 \in Keys
    /\ 1 \in Keys
    /\ Table[0] = 1
    /\ Table[1] = 0
    /\ \E j, k \in Calls :
           /\ j < k
           /\ calls[j].vlan_id = 0
           /\ OutSpan(calls[j]) = <<"K", " ", "1">>
           /\ calls[k].vlan_id = 1
           /\ OutSpan(calls[k]) = <<"K", " ", "0">>

====
